---- MODULE Spec2Model ----
(***************************************************************************)
(* A model of the Git Graph view core of vscode-git-graph:                 *)
(*   BaseGitGraphView  (src/src/gitGraphPanelView.ts, lines 170-971)       *)
(*   GitGraphPanelView (src/src/gitGraphPanelView.ts, lines 15-152)        *)
(*   GitGraphView      (src/unnamed/part_000)                              *)
(* One view instance is modelled; its variant (floating editor panel or    *)
(* docked panel view) is fixed in the initial state; after its disposal a  *)
(* creation request constructs a fresh one.  respondToMessage is           *)
(* an async function: every segment between two awaits is one atomic step. *)
(* A request slot keeps the request, the backend calls its handler has     *)
(* invoked so far (a spy), the results of the completed awaits and the     *)
(* messages the handler has posted.                                        *)
(***************************************************************************)
EXTENDS Integers, Sequences, FiniteSets, TLC

\* ------------------------------------------------------------- bounds
\* Number of requests the UI surface sends in one behaviour of Spec.
MaxReq == 2
\* Number of 'refresh' pushes recorded in the outbox.
MaxRefreshPush == 1
\* Number of non-null LoadTargets handed to the view in one behaviour.
MaxTargets == 2
\* Number of repository-set change events in one behaviour.
MaxEvents == 2
\* Number of times initializeCommon registers its subscriptions.
MaxSubscriptions == 2

\* ------------------------------------------------------------- values
Null == "null"
Repos == {"A", "B"}
Remotes == {"origin", "upstream"}
Slots == 1..MaxReq
Variants == {"floating", "docked"}

VARIABLES
    variant,                \* which ViewHost variant this instance is
    viewPresent,            \* floating: the WebviewPanel exists; docked: _view is defined
    hostVisible,            \* panel.visible / _view.visible, as the host reports it
    isInitialized,          \* GitGraphPanelView._isInitialized
    disposed,               \* Disposable.isDisposed()
    isPanelVisible,         \* BaseGitGraphView.isPanelVisible
    isGraphViewLoaded,      \* BaseGitGraphView.isGraphViewLoaded
    currentRepo,            \* BaseGitGraphView.currentRepo
    loadViewTo,             \* BaseGitGraphView.loadViewTo (a repo to focus, or Null)
    loadRepoInfoRefreshId,  \* BaseGitGraphView.loadRepoInfoRefreshId
    loadCommitsRefreshId,   \* BaseGitGraphView.loadCommitsRefreshId
    watching,               \* RepoFileWatcher: the repo being watched, or Null when stopped
    muted,                  \* RepoFileWatcher: the mute flag
    lastActiveRepo,         \* ExtensionState: the persisted last active repository
    repos,                  \* RepoManager.getRepos(): the known repositories
    reqs,                   \* the request slots
    outbox,                 \* every message posted to the webview, in order
    instance,               \* GitGraphView.currentPanel / GitGraphPanelView.instance is set
    live,                   \* number of constructed view objects not yet disposed
    subscriptions,          \* registered RepoManager.onDidChangeRepos listeners of the view
    handed,                 \* number of non-null LoadTargets handed to the view so far
    delivered,              \* number of non-null LoadTargets that reached the UI surface
    events,                 \* number of repository-set change events so far
    rendered,               \* initialState.loadViewTo of each render of the last step
    revealed,               \* the last step asked the host to reveal the surface
    called,                 \* the call from outside the last step was, with its LoadTarget
    watcherCalls,           \* start/stop calls the last step made on the RepoFileWatcher
    gitExecutableUnknown,   \* DataSource.isGitExecutableUnknown()
    document,               \* the document of each render of the last step
    shownAt,                \* number of requests received before the view last became visible
    showCall                \* the call of GitGraphPanelView.show in progress, or the last one

vars == <<variant, viewPresent, hostVisible, isInitialized, disposed, isPanelVisible,
          isGraphViewLoaded, currentRepo, loadViewTo, loadRepoInfoRefreshId,
          loadCommitsRefreshId, watching, muted, lastActiveRepo, repos, reqs, outbox,
          instance, live, subscriptions, handed, delivered, events, rendered, revealed,
          called, watcherCalls, gitExecutableUnknown, document, shownAt, showCall>>

\* The singleton reference, the subscriptions and the LoadTarget accounting.
hostVars == <<instance, live, subscriptions, handed, events>>

viewVars == <<gitExecutableUnknown, shownAt, showCall, variant, viewPresent, hostVisible, isInitialized, disposed, isPanelVisible,
              isGraphViewLoaded, loadViewTo, repos>>

\* ------------------------------------------------------------- requests
\* Commands whose handler is "await one backend call, then send {command, error/data}".
SingleStepCommands ==
    {"addRemote", "applyStash", "branchFromStash", "checkoutCommit", "cleanUntrackedFiles",
     "commitDetails", "compareCommits", "copyFilePath", "copyToClipboard", "createArchive",
     "createBranch", "deleteRemote", "deleteRemoteBranch", "deleteTag", "dropCommit",
     "dropCommits", "dropStash", "squashCommits", "editRemote", "exportRepoConfig", "fetch",
     "fetchIntoLocalBranch", "loadConfig", "merge", "openExtensionSettings",
     "openExternalDirDiff", "openExternalUrl", "openFile", "openTerminal", "popStash",
     "pruneRemote", "pullBranch", "pushBranch", "pushStash", "pushTag", "rebase",
     "renameBranch", "resetFileToRevision", "resetToCommit", "revertCommit",
     "undoLastCommit", "editCommitMessage", "setGlobalViewState", "setWorkspaceViewState",
     "startCodeReview", "tagDetails", "updateCodeReview", "viewDiff",
     "viewDiffWithWorkingFile", "viewFileAtRevision", "viewScm"}

\* Commands whose handler calls a collaborator synchronously and sends nothing.
SyncNoReplyCommands == {"endCodeReview", "fetchAvatar", "setRepoState", "showErrorMessage"}

\* deleteOnRemotes lists: every duplicate-free list of remotes.
RemoteLists ==
    {<<>>} \cup {<<a>> : a \in Remotes}
           \cup {l \in {<<a, b>> : a \in Remotes, b \in Remotes} : l[1] # l[2]}

\* The UI surface stamps its r-th request with refresh id r.
LoadRepoInfoRequests(id) ==
    {[command |-> "loadRepoInfo", repo |-> p, refreshId |-> id] : p \in Repos}
LoadCommitsRequests(id) ==
    {[command |-> "loadCommits", repo |-> "A", refreshId |-> id]}
LoadReposRequests ==
    {[command |-> "loadRepos", check |-> c] : c \in BOOLEAN}
MultiStepRequests ==
    {[command |-> "addTag", tagName |-> "v1", pushToRemote |-> p] : p \in {Null, "origin"}}
    \cup {[command |-> "checkoutBranch", branchName |-> "feature", pullAfterwards |-> p] :
             p \in {Null, "origin"}}
    \cup {[command |-> "cherrypickCommit", noCommit |-> b] : b \in BOOLEAN}
    \cup {[command |-> "createPullRequest", push |-> b] : b \in BOOLEAN}
    \cup {[command |-> "deleteBranch", branchName |-> "feature", deleteOnRemotes |-> l] :
             l \in RemoteLists}
    \cup {[command |-> "deleteUserDetails", name |-> a, email |-> b] :
             a \in BOOLEAN, b \in BOOLEAN}
    \cup {[command |-> "editUserDetails", deleteLocalName |-> a, deleteLocalEmail |-> b] :
             a \in BOOLEAN, b \in BOOLEAN}

\* The requests of the concurrency specification (Spec).
CoreRequests(id) ==
    LoadRepoInfoRequests(id) \cup LoadCommitsRequests(id) \cup LoadReposRequests
    \cup {[command |-> "fetch"]}

\* Every command of the dispatch table (SpecTable).
TableRequests(id) ==
    {[command |-> c] : c \in SingleStepCommands \cup SyncNoReplyCommands \cup {"rescanForRepos"}}
    \cup LoadRepoInfoRequests(id) \cup LoadCommitsRequests(id) \cup LoadReposRequests
    \cup MultiStepRequests

NoRequest == [command |-> "none"]
\* log: what this invocation of respondToMessage has done so far, in order
\* ("mute", "await" for a backend call it suspended on, "sendMessage",
\* "start" of the watcher, "unmute").
IdleSlot == [msg |-> NoRequest, pc |-> "idle", calls |-> <<>>, results |-> <<>>, sent |-> <<>>,
             log |-> <<>>]

\* ------------------------------------------------------------- collaborators
\* A backend capability call the handler awaits.
Await(fn, arg) == [kind |-> "await", call |-> [fn |-> fn, arg |-> arg]]
\* The handler reaches its sendMessage call with message m.
Send(m) == [kind |-> "send", msg |-> m]
\* The handler reaches the end of its case without sending.
End == [kind |-> "end"]

Failure(call) == "<" \o call.fn \o " " \o call.arg \o " failure>"

\* What an awaited call can resolve to: the list of values it contributes.
Outcomes(call) ==
    CASE call.fn \in {"checkReposExist", "searchWorkspaceForRepos"} -> {<<"true">>, <<"false">>}
      [] call.fn = "repoRoot" -> {<<Null>>, <<call.arg>>}
      [] OTHER -> {<<Null>>, <<Failure(call)>>}

\* ------------------------------------------------------------- handlers
\* Each operator below is one case of respondToMessage's switch.  Given a
\* slot q (request, calls invoked, results of the completed awaits) it says
\* what the handler does next: await a backend call, send, or end.

\* respondLoadRepos: the 'loadRepos' message.
respondLoadRepos(repoSet, target) ==
    [command |-> "loadRepos", repos |-> repoSet, lastActiveRepo |-> lastActiveRepo,
     loadViewTo |-> target]

\* case 'addRemote' and every other case of the same shape.
singleStepWrongCommand(q) ==
    IF Len(q.calls) = 0 THEN Await(q.msg.command, "")
    ELSE Send([command |-> IF q.msg.command = "dropCommits" THEN "dropCommit"
                           ELSE q.msg.command,
               error |-> q.results[1]])

singleStep(q) ==
    IF Len(q.calls) = 0 THEN Await(q.msg.command, "")
    ELSE Send([command |-> q.msg.command, error |-> q.results[1]])

\* case 'endCodeReview', 'fetchAvatar', 'setRepoState', 'showErrorMessage'.
syncNoReply(q) == End

\* case 'rescanForRepos'.
rescanForReposStep(q) ==
    IF Len(q.calls) = 0 THEN Await("searchWorkspaceForRepos", "") ELSE End

\* case 'addTag'.
addTagPushUngated(q) ==
    IF Len(q.calls) = 0 THEN Await("addTag", q.msg.tagName)
    ELSE IF Len(q.calls) = 1 /\ q.msg.pushToRemote # Null
         THEN Await("pushTag", q.msg.pushToRemote)
         ELSE Send([command |-> "addTag", tagName |-> q.msg.tagName,
                    pushToRemote |-> q.msg.pushToRemote, errors |-> q.results])

addTagStep(q) ==
    IF Len(q.calls) = 0 THEN Await("addTag", q.msg.tagName)
    ELSE IF Len(q.calls) = 1 /\ q.results[1] = Null /\ q.msg.pushToRemote # Null
         THEN Await("pushTag", q.msg.pushToRemote)
         ELSE Send([command |-> "addTag", tagName |-> q.msg.tagName,
                    pushToRemote |-> q.msg.pushToRemote, errors |-> q.results])

\* case 'checkoutBranch'.
checkoutBranchPullUngated(q) ==
    IF Len(q.calls) = 0 THEN Await("checkoutBranch", q.msg.branchName)
    ELSE IF Len(q.calls) = 1 /\ q.msg.pullAfterwards # Null
         THEN Await("pullBranch", q.msg.pullAfterwards)
         ELSE Send([command |-> "checkoutBranch", pullAfterwards |-> q.msg.pullAfterwards,
                    errors |-> q.results])

checkoutBranchStep(q) ==
    IF Len(q.calls) = 0 THEN Await("checkoutBranch", q.msg.branchName)
    ELSE IF Len(q.calls) = 1 /\ q.results[1] = Null /\ q.msg.pullAfterwards # Null
         THEN Await("pullBranch", q.msg.pullAfterwards)
         ELSE Send([command |-> "checkoutBranch", pullAfterwards |-> q.msg.pullAfterwards,
                    errors |-> q.results])

\* case 'cherrypickCommit'.
cherrypickCommitStep(q) ==
    IF Len(q.calls) = 0 THEN Await("cherrypickCommit", "")
    ELSE IF Len(q.calls) = 1 /\ q.results[1] = Null /\ q.msg.noCommit
         THEN Await("viewScm", "")
         ELSE Send([command |-> "cherrypickCommit", errors |-> q.results])

\* case 'createPullRequest': errorInfos starts as [null] without a call when
\* msg.push is false.
createPullRequestErrors(q) ==
    IF q.msg.push THEN q.results ELSE <<Null>> \o q.results

createPullRequestStep(q) ==
    IF q.msg.push /\ Len(q.calls) = 0 THEN Await("pushBranch", "")
    ELSE IF Len(createPullRequestErrors(q)) = 1 /\ createPullRequestErrors(q)[1] = Null
         THEN Await("createPullRequest", "")
         ELSE Send([command |-> "createPullRequest", push |-> q.msg.push,
                    errors |-> createPullRequestErrors(q)])

\* case 'deleteBranch': the loop index i of the source is Len(q.calls) - 1.
deleteBranchStopAtFailure(q) ==
    IF Len(q.calls) = 0 THEN Await("deleteBranch", q.msg.branchName)
    ELSE IF /\ q.results[Len(q.results)] = Null
            /\ Len(q.calls) - 1 < Len(q.msg.deleteOnRemotes)
         THEN Await("deleteRemoteBranch", q.msg.deleteOnRemotes[Len(q.calls)])
         ELSE Send([command |-> "deleteBranch", branchName |-> q.msg.branchName,
                    deleteOnRemotes |-> q.msg.deleteOnRemotes, errors |-> q.results])

deleteBranchStep(q) ==
    IF Len(q.calls) = 0 THEN Await("deleteBranch", q.msg.branchName)
    ELSE IF q.results[1] = Null /\ Len(q.calls) - 1 < Len(q.msg.deleteOnRemotes)
         THEN Await("deleteRemoteBranch", q.msg.deleteOnRemotes[Len(q.calls)])
         ELSE Send([command |-> "deleteBranch", branchName |-> q.msg.branchName,
                    deleteOnRemotes |-> q.msg.deleteOnRemotes, errors |-> q.results])

\* case 'deleteUserDetails'.
deleteUserDetailsStep(q) ==
    IF q.msg.name /\ Len(q.calls) = 0 THEN Await("unsetConfigValue", "user.name")
    ELSE IF q.msg.email /\ Len(q.calls) = (IF q.msg.name THEN 1 ELSE 0)
         THEN Await("unsetConfigValue", "user.email")
         ELSE Send([command |-> "deleteUserDetails", errors |-> q.results])

\* case 'editUserDetails': two sets are always awaited; the unsets follow
\* only when both sets returned null.
editUserDetailsStep(q) ==
    IF Len(q.calls) = 0 THEN Await("setConfigValue", "user.name")
    ELSE IF Len(q.calls) = 1 THEN Await("setConfigValue", "user.email")
    ELSE IF /\ q.results[1] = Null /\ q.results[2] = Null
            /\ q.msg.deleteLocalName /\ Len(q.calls) = 2
         THEN Await("unsetConfigValue", "user.name")
    ELSE IF /\ q.results[1] = Null /\ q.results[2] = Null
            /\ q.msg.deleteLocalEmail
            /\ Len(q.calls) = (IF q.msg.deleteLocalName THEN 3 ELSE 2)
         THEN Await("unsetConfigValue", "user.email")
    ELSE Send([command |-> "editUserDetails", errors |-> q.results])

\* case 'loadCommits'.
loadCommitsEchoRemembered(q) ==
    IF Len(q.calls) = 0 THEN Await("getCommits", q.msg.repo)
    ELSE Send([command |-> "loadCommits", refreshId |-> loadCommitsRefreshId,
               error |-> q.results[1]])

loadCommitsDiscardSuperseded(q) ==
    IF Len(q.calls) = 0 THEN Await("getCommits", q.msg.repo)
    ELSE IF q.msg.refreshId # loadCommitsRefreshId THEN End
    ELSE Send([command |-> "loadCommits", refreshId |-> q.msg.refreshId,
               error |-> q.results[1]])

loadCommitsProbeOnError(q) ==
    IF Len(q.calls) = 0 THEN Await("getCommits", q.msg.repo)
    ELSE IF Len(q.calls) = 1 /\ q.results[1] # Null THEN Await("repoRoot", q.msg.repo)
    ELSE Send([command |-> "loadCommits", refreshId |-> q.msg.refreshId,
               error |-> IF Len(q.results) = 2 /\ q.results[2] = Null
                         THEN Null ELSE q.results[1]])

loadCommitsStep(q) ==
    IF Len(q.calls) = 0 THEN Await("getCommits", q.msg.repo)
    ELSE Send([command |-> "loadCommits", refreshId |-> q.msg.refreshId,
               error |-> q.results[1]])

\* case 'loadRepoInfo': isRepo and the error of the response.
loadRepoInfoIsRepo(q) ==
    IF Len(q.results) = 2 THEN q.results[2] # Null ELSE TRUE

loadRepoInfoKeepError(q) ==
    IF Len(q.calls) = 0 THEN Await("getRepoInfo", q.msg.repo)
    ELSE IF Len(q.calls) = 1 /\ q.results[1] # Null THEN Await("repoRoot", q.msg.repo)
    ELSE Send([command |-> "loadRepoInfo", refreshId |-> q.msg.refreshId,
               error |-> q.results[1],
               isRepo |-> loadRepoInfoIsRepo(q)])

loadRepoInfoStep(q) ==
    IF Len(q.calls) = 0 THEN Await("getRepoInfo", q.msg.repo)
    ELSE IF Len(q.calls) = 1 /\ q.results[1] # Null THEN Await("repoRoot", q.msg.repo)
    ELSE Send([command |-> "loadRepoInfo", refreshId |-> q.msg.refreshId,
               error |-> IF loadRepoInfoIsRepo(q) THEN q.results[1] ELSE Null,
               isRepo |-> loadRepoInfoIsRepo(q)])

\* case 'loadRepos'.
loadReposAlwaysSend(q) ==
    IF q.msg.check /\ Len(q.calls) = 0 THEN Await("checkReposExist", "")
    ELSE Send(respondLoadRepos(repos, Null))

loadReposStep(q) ==
    IF q.msg.check /\ Len(q.calls) = 0 THEN Await("checkReposExist", "")
    ELSE IF ~q.msg.check \/ q.results[1] = "false"
         THEN Send(respondLoadRepos(repos, Null))
         ELSE End

\* The switch of respondToMessage.
NextStep(q) ==
    CASE q.msg.command \in SyncNoReplyCommands -> syncNoReply(q)
      [] q.msg.command = "rescanForRepos" -> rescanForReposStep(q)
      [] q.msg.command = "addTag" -> addTagStep(q)
      [] q.msg.command = "checkoutBranch" -> checkoutBranchStep(q)
      [] q.msg.command = "cherrypickCommit" -> cherrypickCommitStep(q)
      [] q.msg.command = "createPullRequest" -> createPullRequestStep(q)
      [] q.msg.command = "deleteBranch" -> deleteBranchStep(q)
      [] q.msg.command = "deleteUserDetails" -> deleteUserDetailsStep(q)
      [] q.msg.command = "editUserDetails" -> editUserDetailsStep(q)
      [] q.msg.command = "loadCommits" -> loadCommitsStep(q)
      [] q.msg.command = "loadRepoInfo" -> loadRepoInfoStep(q)
      [] q.msg.command = "loadRepos" -> loadReposStep(q)
      [] OTHER -> singleStep(q)

\* ------------------------------------------------------------- the watcher
\* RepoFileWatcher (FileWatchCoordinator): start(repo), stop(), mute(),
\* unmute().  The mute flag is a boolean; one repository is watched at a
\* time; while muted, change notifications are swallowed.
mute == TRUE
unmute == FALSE
start(repo) == repo
stop == Null
\* A change in the watched repository reaches the callback.
forwardsChange == watching # Null /\ ~muted

\* ------------------------------------------------------------- the view
\* get isVisible(): panel.visible, or _view?.visible ?? false.
isVisible == viewPresent /\ hostVisible

\* sendMessage(msg): what becomes of the message.  "ignored": the view is
\* disposed (logged, nothing sent).  "throws": the webview getter of the
\* docked variant throws because _view is undefined.  "posted": handed to
\* webview.postMessage.
sendMessage ==
    IF disposed THEN "ignored"
    ELSE IF variant = "docked" /\ ~viewPresent THEN "throws"
    ELSE "posted"

\* No creation request and no repository-set change event in this step.
NoCall == [op |-> "none", target |-> Null]

\* No call of show in progress and none made.  pc: where the call stands
\* ("focus" / "fallback": awaiting that reveal command); commands: the
\* reveal commands executed; results: how they settled; logged: errors
\* logged by the call.
NoShow == [pc |-> "idle", target |-> Null, commands |-> <<>>, results |-> <<>>,
           logged |-> 0]

\* 1 for a LoadTarget that names a repository, 0 for null.
NonNull(target) == IF target # Null THEN 1 ELSE 0

\* The body of the document: 'unable to load' when the Git executable is
\* unknown, else the working document when a repository is known, else the
\* 'no repositories' document with the rescan button.
documentBodyIgnoresGit(numRepos) ==
    IF numRepos > 0 THEN "working" ELSE "noRepos"

documentBody(numRepos) ==
    IF gitExecutableUnknown THEN "unableToLoad"
    ELSE IF numRepos > 0 THEN "working" ELSE "noRepos"

\* The document getHtmlForWebview builds: its body and the initialState
\* object (which only the working document carries in a script).
htmlDocument(repoSet, target, infoId, commitsId) ==
    [body |-> documentBody(Cardinality(repoSet)),
     initialState |-> [lastActiveRepo |-> lastActiveRepo,
                       loadViewTo |-> target,
                       repos |-> repoSet,
                       loadRepoInfoRefreshId |-> infoId,
                       loadCommitsRefreshId |-> commitsId]]

getHtmlForWebviewKeepTarget(repoSet, target) ==
    /\ rendered' = <<target>>
    /\ document' = <<htmlDocument(repoSet, target, loadRepoInfoRefreshId,
                                  loadCommitsRefreshId)>>
    /\ delivered' = delivered + NonNull(target)
    /\ isGraphViewLoaded' = (Cardinality(repoSet) > 0)
    /\ loadViewTo' = loadViewTo

\* getHtmlForWebview(): renders the document with initialState.repos =
\* repoSet and initialState.loadViewTo = target and, as its last
\* statements, sets isGraphViewLoaded and clears loadViewTo.
getHtmlForWebview(repoSet, target) ==
    /\ rendered' = <<target>>
    /\ document' = <<htmlDocument(repoSet, target, loadRepoInfoRefreshId,
                                  loadCommitsRefreshId)>>
    /\ delivered' = delivered + NonNull(target)
    /\ isGraphViewLoaded' = (Cardinality(repoSet) > 0)
    /\ loadViewTo' = Null

\* update(): webview.html = getHtmlForWebview().
update == getHtmlForWebview(repos, loadViewTo)

onDidChangeVisibilityKeepRepo(visible) ==
    IF visible # isPanelVisible
    THEN /\ IF visible
            THEN update /\ watcherCalls' = <<>> /\ UNCHANGED <<currentRepo, watching>>
            ELSE /\ currentRepo' = currentRepo
                 /\ watching' = stop
                 /\ watcherCalls' = <<"stop">>
                 /\ rendered' = <<>> /\ document' = <<>>
                 /\ UNCHANGED <<isGraphViewLoaded, loadViewTo, delivered>>
         /\ isPanelVisible' = visible
    ELSE /\ rendered' = <<>> /\ document' = <<>>
         /\ watcherCalls' = <<>>
         /\ UNCHANGED <<isPanelVisible, isGraphViewLoaded, loadViewTo, currentRepo, watching,
                        delivered>>

\* onDidChangeVisibility(visible).
onDidChangeVisibility(visible) ==
    IF visible # isPanelVisible
    THEN /\ IF visible
            THEN update /\ watcherCalls' = <<>> /\ UNCHANGED <<currentRepo, watching>>
            ELSE /\ currentRepo' = Null
                 /\ watching' = stop
                 /\ watcherCalls' = <<"stop">>
                 /\ rendered' = <<>> /\ document' = <<>>
                 /\ UNCHANGED <<isGraphViewLoaded, loadViewTo, delivered>>
         /\ isPanelVisible' = visible
    ELSE /\ rendered' = <<>> /\ document' = <<>>
         /\ watcherCalls' = <<>>
         /\ UNCHANGED <<isPanelVisible, isGraphViewLoaded, loadViewTo, currentRepo, watching,
                        delivered>>

\* updateWithRepos(repos, loadViewTo): push a loadRepos message when the view
\* is visible and the target is not null; remember the target when hidden.
updateWithRepos(repoSet, target) ==
    IF isVisible
    THEN /\ outbox' = IF target # Null /\ sendMessage = "posted"
                      THEN Append(outbox, respondLoadRepos(repoSet, target))
                      ELSE outbox
         /\ delivered' = IF target # Null /\ sendMessage = "posted"
                         THEN delivered + 1 ELSE delivered
         /\ loadViewTo' = loadViewTo
    ELSE /\ loadViewTo' = target
         /\ UNCHANGED <<outbox, delivered>>

\* The part of case 'loadRepoInfo' after sendMessage: switch the watcher.
switchWatcherAlways(q) ==
    IF q.msg.command = "loadRepoInfo"
    THEN /\ currentRepo' = q.msg.repo
         /\ lastActiveRepo' = q.msg.repo
         /\ watching' = start(q.msg.repo)
         /\ watcherCalls' = <<"start">>
    ELSE /\ watcherCalls' = <<>>
         /\ UNCHANGED <<currentRepo, lastActiveRepo, watching>>

switchWatcher(q) ==
    IF q.msg.command = "loadRepoInfo" /\ q.msg.repo # currentRepo
    THEN /\ currentRepo' = q.msg.repo
         /\ lastActiveRepo' = q.msg.repo
         /\ watching' = start(q.msg.repo)
         /\ watcherCalls' = <<"start">>
    ELSE /\ watcherCalls' = <<>>
         /\ UNCHANGED <<currentRepo, lastActiveRepo, watching>>

RunUnmuteBeforeAwait(r, q, mutedNow) ==
    IF NextStep(q).kind = "await"
    THEN /\ reqs' = [reqs EXCEPT ![r] =
                        [q EXCEPT !.pc = "await", !.calls = Append(@, NextStep(q).call),
                                  !.log = @ \o <<"unmute", "await">>]]
         /\ muted' = unmute
         /\ watcherCalls' = <<>>
         /\ UNCHANGED <<outbox, currentRepo, lastActiveRepo, watching>>
    ELSE IF NextStep(q).kind = "send" /\ sendMessage = "throws"
    THEN /\ reqs' = [reqs EXCEPT ![r] = [q EXCEPT !.pc = "faulted",
                                                  !.log = Append(@, "sendMessage")]]
         /\ muted' = mutedNow
         /\ watcherCalls' = <<>>
         /\ UNCHANGED <<outbox, currentRepo, lastActiveRepo, watching>>
    ELSE /\ switchWatcher(q)
         /\ IF NextStep(q).kind = "send" /\ sendMessage = "posted"
            THEN /\ outbox' = Append(outbox, NextStep(q).msg)
                 /\ reqs' = [reqs EXCEPT ![r] =
                                [q EXCEPT !.pc = "done", !.sent = Append(@, NextStep(q).msg),
                                          !.log = @ \o <<"sendMessage">> \o watcherCalls'
                                                    \o <<"unmute">>]]
            ELSE /\ outbox' = outbox
                 /\ reqs' = [reqs EXCEPT ![r] =
                                [q EXCEPT !.pc = "done",
                                          !.log = @ \o (IF NextStep(q).kind = "send"
                                                        THEN <<"sendMessage">> ELSE <<>>)
                                                    \o watcherCalls' \o <<"unmute">>]]
         /\ muted' = unmute

\* respondToMessage from the point where slot r's handler stands (q is the
\* slot with the result of the await just completed) up to its next await
\* or its exit.  mutedNow is the mute flag at that point.  A throw inside
\* sendMessage rejects the async function: nothing after it runs.
Run(r, q, mutedNow) ==
    IF NextStep(q).kind = "await"
    THEN /\ reqs' = [reqs EXCEPT ![r] =
                        [q EXCEPT !.pc = "await", !.calls = Append(@, NextStep(q).call),
                                  !.log = Append(@, "await")]]
         /\ muted' = mutedNow
         /\ watcherCalls' = <<>>
         /\ UNCHANGED <<outbox, currentRepo, lastActiveRepo, watching>>
    ELSE IF NextStep(q).kind = "send" /\ sendMessage = "throws"
    THEN /\ reqs' = [reqs EXCEPT ![r] = [q EXCEPT !.pc = "faulted",
                                                  !.log = Append(@, "sendMessage")]]
         /\ muted' = mutedNow
         /\ watcherCalls' = <<>>
         /\ UNCHANGED <<outbox, currentRepo, lastActiveRepo, watching>>
    ELSE /\ switchWatcher(q)
         /\ IF NextStep(q).kind = "send" /\ sendMessage = "posted"
            THEN /\ outbox' = Append(outbox, NextStep(q).msg)
                 /\ reqs' = [reqs EXCEPT ![r] =
                                [q EXCEPT !.pc = "done", !.sent = Append(@, NextStep(q).msg),
                                          !.log = @ \o <<"sendMessage">> \o watcherCalls'
                                                    \o <<"unmute">>]]
            ELSE /\ outbox' = outbox
                 /\ reqs' = [reqs EXCEPT ![r] =
                                [q EXCEPT !.pc = "done",
                                          !.log = @ \o (IF NextStep(q).kind = "send"
                                                        THEN <<"sendMessage">> ELSE <<>>)
                                                    \o watcherCalls' \o <<"unmute">>]]
         /\ muted' = unmute

respondToMessageSharedStream(r, msg) ==
    /\ ~disposed /\ isVisible
    /\ reqs[r].pc = "idle"
    /\ \A s \in Slots : s < r => reqs[s].pc # "idle"
    /\ loadRepoInfoRefreshId' =
          IF msg.command \in {"loadRepoInfo", "loadCommits"} THEN msg.refreshId
          ELSE loadRepoInfoRefreshId
    /\ loadCommitsRefreshId' =
          IF msg.command \in {"loadRepoInfo", "loadCommits"} THEN msg.refreshId
          ELSE loadCommitsRefreshId
    /\ Run(r, [IdleSlot EXCEPT !.msg = msg, !.log = <<"mute">>], mute)
    /\ rendered' = <<>> /\ document' = <<>> /\ revealed' = FALSE /\ called' = NoCall
    /\ UNCHANGED <<viewVars, hostVars, delivered>>

\* respondToMessage(msg), from its entry to its first await (or its exit):
\* mute the watcher, remember the refresh id, start the handler.
respondToMessage(r, msg) ==
    /\ ~disposed /\ isVisible
    /\ reqs[r].pc = "idle"
    /\ \A s \in Slots : s < r => reqs[s].pc # "idle"
    /\ loadRepoInfoRefreshId' =
          IF msg.command = "loadRepoInfo" THEN msg.refreshId ELSE loadRepoInfoRefreshId
    /\ loadCommitsRefreshId' =
          IF msg.command = "loadCommits" THEN msg.refreshId ELSE loadCommitsRefreshId
    /\ Run(r, [IdleSlot EXCEPT !.msg = msg, !.log = <<"mute">>], mute)
    /\ rendered' = <<>> /\ document' = <<>> /\ revealed' = FALSE /\ called' = NoCall
    /\ UNCHANGED <<viewVars, hostVars, delivered>>

\* The awaited backend call of slot r completes; the handler continues.
resume(r) ==
    /\ reqs[r].pc = "await"
    /\ \E res \in Outcomes(reqs[r].calls[Len(reqs[r].calls)]) :
          Run(r, [reqs[r] EXCEPT !.results = @ \o res], muted)
    /\ rendered' = <<>> /\ document' = <<>> /\ revealed' = FALSE /\ called' = NoCall
    /\ UNCHANGED <<viewVars, hostVars, delivered, loadRepoInfoRefreshId,
                   loadCommitsRefreshId>>

\* Number of requests the view has received.
Received == Cardinality({r \in Slots : reqs[r].pc # "idle"})

\* The host shows or hides the surface; the subscription registered by the
\* view calls onDidChangeVisibility with the new value.
HostChangesVisibility(v) ==
    /\ viewPresent /\ ~disposed /\ hostVisible # v
    /\ hostVisible' = v
    /\ onDidChangeVisibility(v)
    /\ shownAt' = IF v /\ ~isPanelVisible THEN Received ELSE shownAt
    /\ revealed' = FALSE /\ called' = NoCall
    /\ UNCHANGED <<gitExecutableUnknown, showCall, variant, viewPresent, isInitialized, disposed, loadRepoInfoRefreshId,
                   loadCommitsRefreshId, muted, lastActiveRepo, repos, reqs, outbox,
                   hostVars>>

\* resolveWebviewView: the host materializes the surface of the docked
\* variant.  Not yet initialized: the subscriptions are registered and
\* initializeCommon registers its own and renders; otherwise update().
resolveWebviewView ==
    /\ variant = "docked" /\ ~viewPresent /\ ~disposed
    /\ isInitialized \/ subscriptions < MaxSubscriptions
    /\ viewPresent' = TRUE
    /\ hostVisible' = TRUE
    /\ isInitialized' = TRUE
    /\ subscriptions' = IF isInitialized THEN subscriptions ELSE subscriptions + 1
    /\ update
    /\ revealed' = FALSE /\ called' = NoCall /\ watcherCalls' = <<>>
    /\ UNCHANGED <<gitExecutableUnknown, shownAt, showCall, variant, disposed, isPanelVisible, currentRepo, loadRepoInfoRefreshId,
                   loadCommitsRefreshId, watching, muted, lastActiveRepo, repos, reqs, outbox,
                   instance, live, handed, events>>

\* dispose(): Disposable.dispose marks the view disposed and runs the
\* registered disposables: repoFileWatcher.stop(), the subscriptions, and
\* the one that clears the static reference.
dispose ==
    /\ disposed' = TRUE
    /\ watching' = stop
    /\ watcherCalls' = <<"stop">>
    /\ subscriptions' = 0
    /\ instance' = FALSE
    /\ live' = live - 1

\* The host disposes the surface.  Floating: panel.onDidDispose calls
\* this.dispose().  Docked: webviewView.onDidDispose clears _view and
\* _isInitialized, and nothing else.
SurfaceDisposed ==
    /\ viewPresent /\ ~disposed
    /\ viewPresent' = FALSE
    /\ hostVisible' = FALSE
    /\ IF variant = "floating"
       THEN dispose /\ UNCHANGED isInitialized
       ELSE /\ isInitialized' = FALSE
            /\ watcherCalls' = <<>>
            /\ UNCHANGED <<disposed, watching, subscriptions, instance, live>>
    /\ rendered' = <<>> /\ document' = <<>> /\ revealed' = FALSE /\ called' = NoCall
    /\ UNCHANGED <<gitExecutableUnknown, shownAt, showCall, variant, isPanelVisible, isGraphViewLoaded, currentRepo, loadViewTo,
                   loadRepoInfoRefreshId, loadCommitsRefreshId, muted, lastActiveRepo,
                   repos, reqs, outbox, handed, delivered, events>>

\* The extension disposes the docked view object.
ViewDisposed ==
    /\ variant = "docked" /\ ~disposed
    /\ dispose
    /\ rendered' = <<>> /\ document' = <<>> /\ revealed' = FALSE /\ called' = NoCall
    /\ UNCHANGED <<gitExecutableUnknown, shownAt, showCall, variant, viewPresent, hostVisible, isInitialized, isPanelVisible,
                   isGraphViewLoaded, currentRepo, loadViewTo, loadRepoInfoRefreshId,
                   loadCommitsRefreshId, muted, lastActiveRepo, repos, reqs, outbox,
                   handed, delivered, events>>

\* Number of 'refresh' messages in a message list.
RefreshCount(box) == Cardinality({i \in 1..Len(box) : box[i].command = "refresh"})

WatcherChangeAlwaysForwards ==
    /\ watching # Null
    /\ RefreshCount(outbox) < MaxRefreshPush
    /\ outbox' = IF forwardsChange /\ sendMessage = "posted"
                 THEN Append(outbox, [command |-> "refresh"])
                 ELSE outbox
    /\ called' = IF forwardsChange THEN [op |-> "watcherChange", target |-> Null]
                 ELSE NoCall
    /\ rendered' = <<>> /\ document' = <<>> /\ revealed' = FALSE /\ watcherCalls' = <<>>
    /\ UNCHANGED <<viewVars, hostVars, delivered, currentRepo, loadRepoInfoRefreshId,
                   loadCommitsRefreshId, watching, muted, lastActiveRepo, reqs>>

\* The RepoFileWatcher sees a change in the watched repository.  While
\* muted it swallows the change; otherwise it calls the callback given by
\* the constructor of BaseGitGraphView.
WatcherChange ==
    /\ watching # Null
    /\ RefreshCount(outbox) < MaxRefreshPush
    /\ outbox' = IF forwardsChange /\ isVisible /\ sendMessage = "posted"
                 THEN Append(outbox, [command |-> "refresh"])
                 ELSE outbox
    /\ called' = IF forwardsChange THEN [op |-> "watcherChange", target |-> Null]
                 ELSE NoCall
    /\ rendered' = <<>> /\ document' = <<>> /\ revealed' = FALSE /\ watcherCalls' = <<>>
    /\ UNCHANGED <<viewVars, hostVars, delivered, currentRepo, loadRepoInfoRefreshId,
                   loadCommitsRefreshId, watching, muted, lastActiveRepo, reqs>>

\* ------------------------------------------------------------- creation
\* The repository-set change events of the RepoManager: the new set of
\* repositories and the repository to focus (null, or one of the set).
RepoSets == {{}, {"A"}, {"A", "B"}}
RepoEvents == {[repos |-> s, loadRepo |-> t] : s \in RepoSets, t \in Repos \cup {Null}}
ChangeEvents == {ev \in RepoEvents : ev.loadRepo = Null \/ ev.loadRepo \in ev.repos}

\* k copies of message m.
Copies(m, k) == [i \in 1..k |-> m]

\* The zero/nonzero test of the onDidChangeRepos listener.
reRenders(numRepos) ==
    (numRepos = 0 /\ isGraphViewLoaded) \/ (numRepos > 0 /\ ~isGraphViewLoaded)

\* The RepoManager fires onDidChangeRepos: every listener the view has
\* registered in initializeCommon runs, one after the other.  A listener
\* returns at once when the view is not visible; on a zero/nonzero
\* transition it sets loadViewTo and renders (after which the following
\* listener sees no transition); otherwise it sends loadRepos.
onDidChangeRepos(ev) ==
    /\ events < MaxEvents
    /\ subscriptions > 0 /\ ev.loadRepo # Null => handed < MaxTargets
    /\ events' = events + 1
    /\ repos' = ev.repos
    /\ handed' = IF subscriptions > 0 THEN handed + NonNull(ev.loadRepo) ELSE handed
    /\ IF subscriptions = 0 \/ ~isVisible
       THEN /\ rendered' = <<>> /\ document' = <<>>
            /\ UNCHANGED <<isGraphViewLoaded, loadViewTo, outbox, delivered>>
       ELSE IF reRenders(Cardinality(ev.repos))
       THEN /\ rendered' = <<ev.loadRepo>>
            /\ document' = <<htmlDocument(ev.repos, ev.loadRepo, loadRepoInfoRefreshId,
                                          loadCommitsRefreshId)>>
            /\ isGraphViewLoaded' = (Cardinality(ev.repos) > 0)
            /\ loadViewTo' = Null
            /\ outbox' = outbox \o Copies(respondLoadRepos(ev.repos, ev.loadRepo),
                                          subscriptions - 1)
            /\ delivered' = delivered + subscriptions * NonNull(ev.loadRepo)
       ELSE /\ rendered' = <<>> /\ document' = <<>>
            /\ outbox' = outbox \o Copies(respondLoadRepos(ev.repos, ev.loadRepo),
                                          subscriptions)
            /\ delivered' = delivered + subscriptions * NonNull(ev.loadRepo)
            /\ UNCHANGED <<isGraphViewLoaded, loadViewTo>>
    /\ called' = [op |-> "onDidChangeRepos", target |-> ev.loadRepo]
    /\ revealed' = FALSE /\ watcherCalls' = <<>>
    /\ UNCHANGED <<gitExecutableUnknown, shownAt, showCall, variant, viewPresent, hostVisible, isInitialized, disposed,
                   isPanelVisible, currentRepo, loadRepoInfoRefreshId, loadCommitsRefreshId,
                   watching, muted, lastActiveRepo, reqs, instance, live, subscriptions>>

\* The AvatarManager fires onAvatar: every listener the view has registered
\* in initializeCommon calls sendMessage with a fetchAvatar message, without
\* looking at the visibility.
onAvatar ==
    /\ events < MaxEvents
    /\ events' = events + 1
    /\ outbox' = IF sendMessage = "posted"
                 THEN outbox \o Copies([command |-> "fetchAvatar"], subscriptions)
                 ELSE outbox
    /\ called' = [op |-> "onAvatar", target |-> Null]
    /\ rendered' = <<>> /\ document' = <<>> /\ revealed' = FALSE /\ watcherCalls' = <<>>
    /\ UNCHANGED <<viewVars, delivered, currentRepo, loadRepoInfoRefreshId,
                   loadCommitsRefreshId, watching, muted, lastActiveRepo, reqs, instance,
                   live, subscriptions, handed>>

\* new GitGraphView(..., loadViewTo, column) / new GitGraphPanelView(...):
\* a fresh view object.  The floating constructor creates the panel and
\* runs initializeCommon, which renders loadViewTo; the docked constructor
\* waits for resolveWebviewView.  The request slots and the outbox follow
\* the new object and its webview.
construct(target) ==
    /\ viewPresent' = (variant = "floating")
    /\ hostVisible' = (variant = "floating")
    /\ isInitialized' = FALSE
    /\ disposed' = FALSE
    /\ isPanelVisible' = TRUE
    /\ currentRepo' = Null
    /\ loadRepoInfoRefreshId' = 0
    /\ loadCommitsRefreshId' = 0
    /\ watching' = Null
    /\ muted' = FALSE
    /\ reqs' = [s \in Slots |-> IdleSlot]
    /\ outbox' = <<>>
    /\ instance' = TRUE
    /\ live' = live + 1
    /\ shownAt' = 0
    /\ showCall' = NoShow
    /\ IF variant = "floating"
       THEN /\ subscriptions' = 1
            /\ rendered' = <<target>>
            /\ document' = <<htmlDocument(repos, target, 0, 0)>>
            /\ delivered' = delivered + NonNull(target)
            /\ isGraphViewLoaded' = (Cardinality(repos) > 0)
            /\ loadViewTo' = Null
       ELSE /\ subscriptions' = 0
            /\ rendered' = <<>> /\ document' = <<>>
            /\ isGraphViewLoaded' = FALSE
            /\ loadViewTo' = target
            /\ delivered' = delivered

createOrShowAlwaysConstructs(target) ==
    /\ variant = "floating"
    /\ target # Null => handed < MaxTargets
    /\ handed' = handed + NonNull(target)
    /\ construct(target) /\ revealed' = FALSE
    /\ called' = [op |-> "createOrShow", target |-> target]
    /\ watcherCalls' = <<>>
    /\ UNCHANGED <<gitExecutableUnknown, variant, lastActiveRepo, repos, events>>

\* GitGraphView.createOrShow(..., loadViewTo).
createOrShow(target) ==
    /\ variant = "floating"
    /\ target # Null => handed < MaxTargets
    /\ handed' = handed + NonNull(target)
    /\ IF instance
       THEN /\ updateWithRepos(repos, target)
            /\ revealed' = TRUE
            /\ rendered' = <<>> /\ document' = <<>>
            /\ UNCHANGED <<shownAt, showCall, viewPresent, hostVisible, isInitialized, disposed, isPanelVisible,
                           isGraphViewLoaded, currentRepo, loadRepoInfoRefreshId,
                           loadCommitsRefreshId, watching, muted, reqs, instance, live,
                           subscriptions>>
       ELSE construct(target) /\ revealed' = FALSE
    /\ called' = [op |-> "createOrShow", target |-> target]
    /\ watcherCalls' = <<>>
    /\ UNCHANGED <<gitExecutableUnknown, variant, lastActiveRepo, repos, events>>

\* GitGraphPanelView.getInstance(...).
getInstance ==
    /\ variant = "docked"
    /\ IF instance
       THEN /\ rendered' = <<>> /\ document' = <<>>
            /\ UNCHANGED <<shownAt, showCall, viewPresent, hostVisible, isInitialized, disposed, isPanelVisible,
                           isGraphViewLoaded, currentRepo, loadViewTo, loadRepoInfoRefreshId,
                           loadCommitsRefreshId, watching, muted, reqs, outbox, instance,
                           live, subscriptions, delivered>>
       ELSE construct(Null)
    /\ called' = [op |-> "getInstance", target |-> Null]
    /\ revealed' = FALSE /\ watcherCalls' = <<>>
    /\ UNCHANGED <<gitExecutableUnknown, variant, lastActiveRepo, repos, handed, events>>

\* GitGraphPanelView.show(loadViewTo), from its entry.  With a surface: no
\* reveal command, _view.show and updateWithRepos, and the call is over.
\* Without one: the first reveal command is executed and awaited.
show(target) ==
    /\ variant = "docked" /\ instance
    /\ showCall.pc \in {"idle", "done"}
    /\ target # Null => handed < MaxTargets
    /\ handed' = handed + NonNull(target)
    /\ IF viewPresent
       THEN /\ updateWithRepos(repos, target)
            /\ showCall' = [NoShow EXCEPT !.pc = "done"]
       ELSE /\ showCall' = [NoShow EXCEPT !.pc = "focus", !.target = target,
                                          !.commands = <<"git-graph.panel.focus">>]
            /\ UNCHANGED <<loadViewTo, outbox, delivered>>
    /\ revealed' = TRUE
    /\ called' = [op |-> "show", target |-> target]
    /\ rendered' = <<>> /\ document' = <<>> /\ watcherCalls' = <<>>
    /\ UNCHANGED <<gitExecutableUnknown, shownAt, variant, viewPresent, hostVisible,
                   isInitialized, disposed, isPanelVisible, isGraphViewLoaded, currentRepo,
                   loadRepoInfoRefreshId, loadCommitsRefreshId, watching, muted,
                   lastActiveRepo, repos, reqs, instance, live, subscriptions, events>>

showResumeDropsTarget(ok) ==
    /\ showCall.pc \in {"focus", "fallback"}
    /\ IF ~ok /\ showCall.pc = "focus"
       THEN /\ showCall' = [showCall EXCEPT
                               !.pc = "fallback",
                               !.commands = Append(@, "workbench.view.extension.git-graph-panel"),
                               !.results = Append(@, "failed")]
            /\ revealed' = TRUE
            /\ UNCHANGED <<loadViewTo, outbox, delivered>>
       ELSE /\ showCall' = [showCall EXCEPT
                               !.pc = "done", !.target = Null,
                               !.results = Append(@, IF ok THEN "ok" ELSE "failed"),
                               !.logged = IF ok THEN 0 ELSE 1]
            /\ IF viewPresent
               THEN updateWithRepos(repos, showCall.target) /\ revealed' = TRUE
               ELSE /\ loadViewTo' = loadViewTo
                    /\ revealed' = FALSE
                    /\ UNCHANGED <<outbox, delivered>>
    /\ called' = [op |-> "showResume", target |-> showCall.target]
    /\ rendered' = <<>> /\ document' = <<>> /\ watcherCalls' = <<>>
    /\ UNCHANGED <<gitExecutableUnknown, shownAt, variant, viewPresent, hostVisible,
                   isInitialized, disposed, isPanelVisible, isGraphViewLoaded, currentRepo,
                   loadRepoInfoRefreshId, loadCommitsRefreshId, watching, muted,
                   lastActiveRepo, repos, reqs, instance, live, subscriptions, handed,
                   events>>

showResumeWithoutFallback(ok) ==
    /\ showCall.pc \in {"focus", "fallback"}
    /\ showCall' = [showCall EXCEPT
                       !.pc = "done", !.target = Null,
                       !.results = Append(@, IF ok THEN "ok" ELSE "failed"),
                       !.logged = IF ok THEN 0 ELSE 1]
    /\ IF viewPresent
       THEN updateWithRepos(repos, showCall.target) /\ revealed' = TRUE
       ELSE /\ loadViewTo' = showCall.target
            /\ revealed' = FALSE
            /\ UNCHANGED <<outbox, delivered>>
    /\ called' = [op |-> "showResume", target |-> showCall.target]
    /\ rendered' = <<>> /\ document' = <<>> /\ watcherCalls' = <<>>
    /\ UNCHANGED <<gitExecutableUnknown, shownAt, variant, viewPresent, hostVisible,
                   isInitialized, disposed, isPanelVisible, isGraphViewLoaded, currentRepo,
                   loadRepoInfoRefreshId, loadCommitsRefreshId, watching, muted,
                   lastActiveRepo, repos, reqs, instance, live, subscriptions, handed,
                   events>>

\* The reveal command show awaits settles (ok: it resolved; otherwise it
\* rejected) and show continues.  The first command rejected: the catch
\* executes the fallback command and awaits it.  Otherwise (a command
\* resolved, or the fallback rejected too and the error is logged) show
\* runs to its end: with a surface, _view.show and updateWithRepos; without
\* one, loadViewTo is saved for resolveWebviewView.
showResume(ok) ==
    /\ showCall.pc \in {"focus", "fallback"}
    /\ IF ~ok /\ showCall.pc = "focus"
       THEN /\ showCall' = [showCall EXCEPT
                               !.pc = "fallback",
                               !.commands = Append(@, "workbench.view.extension.git-graph-panel"),
                               !.results = Append(@, "failed")]
            /\ revealed' = TRUE
            /\ UNCHANGED <<loadViewTo, outbox, delivered>>
       ELSE /\ showCall' = [showCall EXCEPT
                               !.pc = "done", !.target = Null,
                               !.results = Append(@, IF ok THEN "ok" ELSE "failed"),
                               !.logged = IF ok THEN 0 ELSE 1]
            /\ IF viewPresent
               THEN updateWithRepos(repos, showCall.target) /\ revealed' = TRUE
               ELSE /\ loadViewTo' = showCall.target
                    /\ revealed' = FALSE
                    /\ UNCHANGED <<outbox, delivered>>
    /\ called' = [op |-> "showResume", target |-> showCall.target]
    /\ rendered' = <<>> /\ document' = <<>> /\ watcherCalls' = <<>>
    /\ UNCHANGED <<gitExecutableUnknown, shownAt, variant, viewPresent, hostVisible,
                   isInitialized, disposed, isPanelVisible, isGraphViewLoaded, currentRepo,
                   loadRepoInfoRefreshId, loadCommitsRefreshId, watching, muted,
                   lastActiveRepo, repos, reqs, instance, live, subscriptions, handed,
                   events>>

\* ------------------------------------------------------------- specifications
InitView ==
    /\ variant \in Variants
    /\ viewPresent = (variant = "floating")
    /\ hostVisible = (variant = "floating")
    /\ isInitialized = FALSE
    /\ disposed = FALSE
    /\ isPanelVisible = TRUE
    /\ repos = Repos
    /\ isGraphViewLoaded = (variant = "floating" /\ Cardinality(repos) > 0)
    /\ currentRepo = Null
    /\ loadViewTo = Null
    /\ loadRepoInfoRefreshId = 0
    /\ loadCommitsRefreshId = 0
    /\ watching = Null
    /\ muted = FALSE
    /\ lastActiveRepo = Null
    /\ reqs = [s \in Slots |-> IdleSlot]
    /\ outbox = <<>>
    /\ instance = TRUE
    /\ live = 1
    /\ subscriptions = (IF variant = "floating" THEN 1 ELSE 0)
    /\ handed = 0
    /\ delivered = 0
    /\ events = 0
    /\ rendered = (IF variant = "floating" THEN <<Null>> ELSE <<>>)
    /\ revealed = FALSE
    /\ called = NoCall
    /\ watcherCalls = <<>>
    /\ document = (IF variant = "floating" THEN <<htmlDocument(repos, Null, 0, 0)>>
                   ELSE <<>>)
    /\ shownAt = 0
    /\ showCall = NoShow

\* The Git executable is known.
Init == gitExecutableUnknown = FALSE /\ InitView

\* The Git executable is known or unknown.
InitDocument == gitExecutableUnknown \in BOOLEAN /\ InitView

Lifecycle ==
    \/ \E v \in BOOLEAN : HostChangesVisibility(v)
    \/ resolveWebviewView
    \/ SurfaceDisposed
    \/ ViewDisposed

\* Concurrent requests of the read queries, with the lifecycle and the watcher.
Next ==
    \/ \E r \in Slots : \E msg \in CoreRequests(r) : respondToMessage(r, msg)
    \/ \E r \in Slots : resume(r)
    \/ Lifecycle
    \/ WatcherChange

Spec == Init /\ [][Next]_vars

\* Concurrent requests on a surface that stays present and visible.
NextQueries ==
    \/ \E r \in Slots : \E msg \in CoreRequests(r) : respondToMessage(r, msg)
    \/ \E r \in Slots : resume(r)
    \/ resolveWebviewView
    \/ WatcherChange

SpecQueries == Init /\ [][NextQueries]_vars

\* One request at a time through the whole dispatch table.
NextTable ==
    \/ \E msg \in TableRequests(1) : respondToMessage(1, msg)
    \/ resume(1)
    \/ Lifecycle

SpecTable == Init /\ [][NextTable]_vars

\* A backend call, once invoked, runs to completion.
SpecTableFair == SpecTable /\ \A r \in Slots : WF_vars(resume(r))

\* The creation requests and the lifecycle.
NextHost ==
    \/ \E target \in Repos \cup {Null} : createOrShow(target)
    \/ getInstance
    \/ \E target \in Repos \cup {Null} : show(target)
    \/ \E ok \in BOOLEAN : showResume(ok)
    \/ Lifecycle

SpecHost == Init /\ [][NextHost]_vars

\* The repository-set change events, the avatar events and the lifecycle.
NextEvents ==
    \/ \E ev \in ChangeEvents : onDidChangeRepos(ev)
    \/ onAvatar
    \/ Lifecycle

SpecEvents == Init /\ [][NextEvents]_vars

\* One loadRepos request, with the repository-set change events and the
\* lifecycle.
NextRepos ==
    \/ \E msg \in LoadReposRequests : respondToMessage(1, msg)
    \/ resume(1)
    \/ \E ev \in ChangeEvents : onDidChangeRepos(ev)
    \/ Lifecycle

SpecRepos == Init /\ [][NextRepos]_vars

\* One loadRepoInfo request, with the lifecycle and the watcher.
NextWatcher ==
    \/ \E msg \in LoadRepoInfoRequests(1) : respondToMessage(1, msg)
    \/ resume(1)
    \/ Lifecycle
    \/ WatcherChange

SpecWatcher == Init /\ [][NextWatcher]_vars

\* Concurrent loadRepoInfo, loadCommits and fetch requests on a surface
\* that is hidden, shown and materialized.
NextRefresh ==
    \/ \E r \in Slots :
          \E msg \in LoadRepoInfoRequests(r) \cup LoadCommitsRequests(r)
                      \cup {[command |-> "fetch"]} : respondToMessage(r, msg)
    \/ \E r \in Slots : resume(r)
    \/ \E v \in BOOLEAN : HostChangesVisibility(v)
    \/ resolveWebviewView

SpecRefresh == Init /\ [][NextRefresh]_vars

\* The same, with a Git executable that may be unknown.
SpecDocument == InitDocument /\ [][NextEvents]_vars

\* ------------------------------------------------------------- claims
\* The response slot r's handler posted, and its errors list.
Posted(r) == reqs[r].pc = "done" /\ Len(reqs[r].sent) = 1
Errors(r) == reqs[r].sent[1].errors
\* The backend calls slot r's handler has invoked, by name.
Invoked(r, fn) == {i \in 1..Len(reqs[r].calls) : reqs[r].calls[i].fn = fn}

\* The commands the specification lists as fire-and-forget.
FireAndForget == {"fetchAvatar", "rescanForRepos", "endCodeReview", "setRepoState"}

\* C1, as claimed: every request whose command is not fire-and-forget has,
\* once its handler has completed on a view that is not disposed, exactly
\* one response, with the request's command.
C1_Original ==
    \A r \in Slots :
        (reqs[r].pc = "done" /\ ~disposed /\ reqs[r].msg.command \notin FireAndForget)
        => /\ Len(reqs[r].sent) = 1
           /\ reqs[r].sent[1].command = reqs[r].msg.command

\* The requests the dispatcher answers: not fire-and-forget, not
\* showErrorMessage, not a loadRepos whose existence check reported changes.
Answered(q) ==
    /\ q.msg.command \notin FireAndForget \cup {"showErrorMessage"}
    /\ ~(q.msg.command = "loadRepos" /\ q.msg.check /\ q.results = <<"true">>)

\* C1, amended: a handler never posts more than one message and every
\* message it posts carries the request's command; every answered request
\* has exactly one response once its handler has completed on a view that
\* is not disposed; and every handler that awaits a backend call completes.
C1_ExactlyOneResponse ==
    /\ [](\A r \in Slots :
            /\ Len(reqs[r].sent) <= 1
            /\ \A i \in 1..Len(reqs[r].sent) :
                  reqs[r].sent[i].command = reqs[r].msg.command
            /\ (reqs[r].pc = "done" /\ ~disposed /\ Answered(reqs[r]))
               => Len(reqs[r].sent) = 1)
    /\ \A r \in Slots :
          (reqs[r].pc = "await") ~> (reqs[r].pc \in {"done", "faulted"})

\* C1 witness: a loadRepos request with check=true whose check found no
\* change has been answered with one loadRepos response.
C1_Witness ==
    \E r \in Slots :
        /\ Posted(r) /\ ~disposed
        /\ reqs[r].msg.command = "loadRepos" /\ reqs[r].msg.check
        /\ reqs[r].sent[1].command = "loadRepos"

\* C2, as claimed: whenever the dispatch of a request finishes, by a normal
\* return or by a thrown fault, the watcher is unmuted.
C2_ReleasedOnEveryExit ==
    [][\A r \in Slots :
          (reqs[r].pc \in {"idle", "await"} /\ reqs'[r].pc \in {"done", "faulted"})
          => ~muted']_vars

\* C3, as claimed: while some request is in dispatch (received, handler not
\* completed) no step pushes a 'refresh' message.
C3_NoRefreshWhileInDispatch ==
    [][(\E r \in Slots : reqs[r].pc = "await")
       => RefreshCount(outbox') = RefreshCount(outbox)]_vars

\* C4: every loadRepoInfo and loadCommits response carries the refreshId of
\* the request that caused it.
C4_EchoesRequestRefreshId ==
    \A r \in Slots : \A i \in 1..Len(reqs[r].sent) :
        reqs[r].sent[i].command \in {"loadRepoInfo", "loadCommits"}
        => reqs[r].sent[i].refreshId = reqs[r].msg.refreshId

\* C4 witness: a loadCommits request was answered with its own refreshId
\* after a later loadCommits request had overwritten the remembered id.
C4_Witness ==
    \E r \in Slots :
        /\ Posted(r) /\ reqs[r].msg.command = "loadCommits"
        /\ reqs[r].sent[1].refreshId = reqs[r].msg.refreshId
        /\ loadCommitsRefreshId # reqs[r].msg.refreshId

\* C5: the step in which a loadCommits handler completes appends that
\* request's response to the outbox, whatever other requests were received
\* or answered meanwhile (responses appear in completion order, none is
\* suppressed).
C5_NoDiscarding ==
    [][\A r \in Slots :
          (/\ reqs[r].pc = "await" /\ reqs'[r].pc \in {"done", "faulted"}
           /\ reqs[r].msg.command = "loadCommits"
           /\ sendMessage = "posted")
          => outbox' = Append(outbox, [command |-> "loadCommits",
                                       refreshId |-> reqs[r].msg.refreshId,
                                       error |-> reqs'[r].results[1]])]_vars

\* C5 witness: loadCommits requests with refreshId 1 then 2 were answered in
\* the order 2 then 1.
C5_Witness ==
    /\ Len(outbox) = 2
    /\ outbox[1].command = "loadCommits" /\ outbox[1].refreshId = 2
    /\ outbox[2].command = "loadCommits" /\ outbox[2].refreshId = 1

\* Number of secondary steps a gate-then-fan-out request asks for.
Secondaries(msg) ==
    CASE msg.command = "addTag" -> IF msg.pushToRemote # Null THEN 1 ELSE 0
      [] msg.command = "deleteBranch" -> Len(msg.deleteOnRemotes)
      [] msg.command = "editUserDetails" ->
            (IF msg.deleteLocalName THEN 1 ELSE 0) + (IF msg.deleteLocalEmail THEN 1 ELSE 0)

\* C6, as claimed: for addTag, deleteBranch and editUserDetails, a non-null
\* primary error gives an errors list of length 1 and no secondary call; a
\* null primary error gives length 1 + the number of secondary steps.
C6_Original ==
    \A r \in Slots :
        (Posted(r) /\ reqs[r].msg.command \in {"addTag", "deleteBranch", "editUserDetails"})
        => IF Errors(r)[1] # Null
           THEN Len(Errors(r)) = 1 /\ Len(reqs[r].calls) = 1
           ELSE Len(Errors(r)) = 1 + Secondaries(reqs[r].msg)

\* C6, amended: as claimed for addTag and deleteBranch; for editUserDetails
\* the primary step is the two sets, both always invoked: if either set's
\* error is non-null the list has length 2 and no unset is invoked, and if
\* both are null the list has length 2 + the number of requested unsets.
C6_GateThenFanOut ==
    \A r \in Slots :
        /\ (Posted(r) /\ reqs[r].msg.command \in {"addTag", "deleteBranch"})
           => IF Errors(r)[1] # Null
              THEN Len(Errors(r)) = 1 /\ Len(reqs[r].calls) = 1
              ELSE Len(Errors(r)) = 1 + Secondaries(reqs[r].msg)
        /\ (Posted(r) /\ reqs[r].msg.command = "editUserDetails")
           => IF Errors(r)[1] # Null \/ Errors(r)[2] # Null
              THEN Len(Errors(r)) = 2 /\ Len(reqs[r].calls) = 2
              ELSE Len(Errors(r)) = 2 + Secondaries(reqs[r].msg)

\* C6 witness: an addTag with a remote to push to, whose tag creation
\* failed, was answered with a one-entry errors list and pushTag not invoked.
C6_Witness ==
    \E r \in Slots :
        /\ Posted(r) /\ reqs[r].msg.command = "addTag"
        /\ reqs[r].msg.pushToRemote # Null
        /\ Errors(r)[1] # Null /\ Len(Errors(r)) = 1
        /\ Invoked(r, "pushTag") = {}

\* C7: a deleteBranch whose local deletion succeeded has attempted the
\* remote deletion on every remote of deleteOnRemotes, in order, and
\* errors[i+1] is null or the failure of the deletion on deleteOnRemotes[i].
C7_AllRemotesAttempted ==
    \A r \in Slots :
        (Posted(r) /\ reqs[r].msg.command = "deleteBranch" /\ Errors(r)[1] = Null)
        => /\ Len(Errors(r)) = 1 + Len(reqs[r].msg.deleteOnRemotes)
           /\ Len(reqs[r].calls) = 1 + Len(reqs[r].msg.deleteOnRemotes)
           /\ \A i \in 1..Len(reqs[r].msg.deleteOnRemotes) :
                 /\ reqs[r].calls[i + 1] =
                       [fn |-> "deleteRemoteBranch", arg |-> reqs[r].msg.deleteOnRemotes[i]]
                 /\ Errors(r)[i + 1] \in {Null, Failure(reqs[r].calls[i + 1])}

\* C7 witness: remotes [origin, upstream], only the origin deletion failed.
C7_Witness ==
    \E r \in Slots :
        /\ Posted(r) /\ reqs[r].msg.command = "deleteBranch"
        /\ reqs[r].msg.deleteOnRemotes = <<"origin", "upstream">>
        /\ Errors(r) = <<Null, "<deleteRemoteBranch origin failure>", Null>>

\* The dependent step of a gate-then-single-follow-up command.
Dependent(command) ==
    CASE command = "checkoutBranch" -> "pullBranch"
      [] command = "cherrypickCommit" -> "viewScm"
      [] command = "createPullRequest" -> "createPullRequest"

\* C8: for checkoutBranch, cherrypickCommit and createPullRequest the
\* dependent step is invoked at most once and only after the primary step
\* returned null; when the primary step returned an error the response has
\* exactly one errors entry.
C8_GateThenSingleFollowUp ==
    \A r \in Slots :
        reqs[r].msg.command \in {"checkoutBranch", "cherrypickCommit", "createPullRequest"}
        => /\ Cardinality(Invoked(r, Dependent(reqs[r].msg.command))) <= 1
           /\ \A i \in Invoked(r, Dependent(reqs[r].msg.command)) :
                 \/ i = 2 /\ reqs[r].results[1] = Null
                 \/ i = 1 /\ reqs[r].msg.command = "createPullRequest" /\ ~reqs[r].msg.push
           /\ (Posted(r) /\ Errors(r)[1] # Null)
              => /\ Len(Errors(r)) = 1
                 /\ Invoked(r, Dependent(reqs[r].msg.command)) = {}

\* C8 witness: a checkoutBranch with pullAfterwards whose checkout failed
\* was answered with one error and the pull was not invoked.
C8_Witness ==
    \E r \in Slots :
        /\ Posted(r) /\ reqs[r].msg.command = "checkoutBranch"
        /\ reqs[r].msg.pullAfterwards # Null
        /\ Errors(r)[1] # Null /\ Len(Errors(r)) = 1
        /\ reqs[r].calls = <<[fn |-> "checkoutBranch", arg |-> "feature"]>>

\* C9: loadRepoInfo's structural-absence rule.  Query error and the probe
\* finds no repository root: error null, isRepo false.  Query error and the
\* repository exists: the error is kept, isRepo true.  No query error: no
\* probe is made and isRepo is true.
C9_StructuralAbsence ==
    \A r \in Slots :
        (Posted(r) /\ reqs[r].msg.command = "loadRepoInfo")
        => IF reqs[r].results[1] # Null
           THEN /\ Cardinality(Invoked(r, "repoRoot")) = 1
                /\ IF reqs[r].results[2] = Null
                   THEN reqs[r].sent[1].error = Null /\ ~reqs[r].sent[1].isRepo
                   ELSE /\ reqs[r].sent[1].error = reqs[r].results[1]
                        /\ reqs[r].sent[1].isRepo
           ELSE /\ Invoked(r, "repoRoot") = {}
                /\ reqs[r].sent[1].error = Null
                /\ reqs[r].sent[1].isRepo

\* C9 witness: the query failed, the probe found no root, and the response
\* says error null, isRepo false.
C9_Witness ==
    \E r \in Slots :
        /\ Posted(r) /\ reqs[r].msg.command = "loadRepoInfo"
        /\ reqs[r].results = <<"<getRepoInfo " \o reqs[r].msg.repo \o " failure>", Null>>
        /\ reqs[r].sent[1].error = Null /\ ~reqs[r].sent[1].isRepo

\* C10, as claimed: whenever the tracked visibility is hidden, the watcher
\* is stopped and the tracked current repository is null.
C10_HiddenImpliesStopped ==
    ~isPanelVisible => (watching = Null /\ currentRepo = Null)

\* C11: the step that takes the tracked visibility from visible to hidden
\* sets the tracked current repository to null, stops the watcher, renders
\* nothing, and leaves the pending LoadTarget and both remembered refresh
\* ids as they were.
C11_HideEffects ==
    [][(isPanelVisible /\ ~isPanelVisible')
       => /\ currentRepo' = Null
          /\ watching' = Null /\ watcherCalls' = <<"stop">>
          /\ rendered' = <<>>
          /\ loadViewTo' = loadViewTo
          /\ loadRepoInfoRefreshId' = loadRepoInfoRefreshId
          /\ loadCommitsRefreshId' = loadCommitsRefreshId]_vars

\* C11 witness: the view has just been hidden while the watcher was running
\* on the repository of an answered loadRepoInfo request with refreshId 1.
C11_Witness ==
    /\ ~isPanelVisible /\ viewPresent /\ ~disposed
    /\ watcherCalls = <<"stop">> /\ rendered = <<>>
    /\ Posted(1) /\ lastActiveRepo = reqs[1].msg.repo
    /\ currentRepo = Null /\ watching = Null
    /\ loadRepoInfoRefreshId = 1

\* C12: the step that takes the tracked visibility of a view from hidden to
\* visible performs exactly one render, whose initial state carries the
\* pending LoadTarget; after any render the pending LoadTarget is null; and
\* a render made when no target is pending and none is handed over in the
\* same step carries a null LoadTarget.
C12_FlushOnce ==
    [][/\ (~isPanelVisible /\ isPanelVisible' /\ live' = live)
          => rendered' = <<loadViewTo>>
       /\ Len(rendered') > 0 => loadViewTo' = Null
       /\ (Len(rendered') > 0 /\ loadViewTo = Null /\ handed' = handed)
          => rendered' = <<Null>>]_vars

\* C12 witness: a floating view was hidden, was given the target A, and has
\* just rendered A on becoming visible again.
C12_Witness ==
    /\ variant = "floating" /\ called = NoCall
    /\ isPanelVisible /\ rendered = <<"A">> /\ loadViewTo = Null
    /\ handed = 1 /\ delivered = 1

\* The effect of updateWithRepos(repos, target) on the existing view.
Updated(target) ==
    IF isVisible
    THEN /\ loadViewTo' = loadViewTo
         /\ outbox' = IF target # Null
                      THEN Append(outbox, respondLoadRepos(repos, target)) ELSE outbox
    ELSE loadViewTo' = target /\ outbox' = outbox

\* C13, as claimed: never more than one live instance; a creation request
\* (createOrShow or getInstance) made while the static reference is set
\* constructs nothing, updates the existing view and re-reveals it; a
\* creation request made after disposal constructs a fresh instance.
C13_Original ==
    [][/\ live' <= 1
       /\ (called'.op \in {"createOrShow", "getInstance"} /\ instance)
          => live' = live /\ instance' /\ Updated(called'.target) /\ revealed'
       /\ (called'.op \in {"createOrShow", "getInstance"} /\ ~instance)
          => live' = live + 1 /\ instance']_vars

\* C13, amended: never more than one live instance, and the static
\* reference is set exactly while one is live; createOrShow on an existing
\* floating view constructs nothing, calls updateWithRepos with the known
\* repositories and the new LoadTarget and re-reveals the panel;
\* getInstance on an existing docked view constructs nothing and changes
\* nothing (the update and the reveal are done by show, at once when the
\* surface exists and after its reveal commands otherwise); a creation
\* request made after the view was disposed constructs a fresh instance.
C13_Singleton ==
    [][/\ live' <= 1 /\ (instance' <=> live' = 1)
       /\ (called'.op = "createOrShow" /\ instance)
          => live' = live /\ instance' /\ Updated(called'.target) /\ revealed'
       /\ (called'.op = "getInstance" /\ instance)
          => /\ live' = live /\ instance' /\ ~revealed'
             /\ UNCHANGED <<loadViewTo, outbox, viewPresent, hostVisible, reqs>>
       /\ (called'.op = "show" /\ instance)
          => /\ live' = live /\ revealed'
             /\ IF viewPresent THEN Updated(called'.target)
                ELSE loadViewTo' = loadViewTo /\ outbox' = outbox
       /\ (called'.op = "showResume" /\ showCall'.pc = "done" /\ instance)
          => /\ live' = live
             /\ IF viewPresent THEN Updated(called'.target) /\ revealed'
                ELSE loadViewTo' = called'.target /\ outbox' = outbox
       /\ (called'.op \in {"createOrShow", "getInstance"} /\ ~instance)
          => live' = live + 1 /\ instance' /\ ~disposed']_vars

\* C13 witness: createOrShow with target A has just reached an existing,
\* hidden floating view: no new instance, the target is remembered, the
\* panel is re-revealed.
C13_Witness ==
    /\ called = [op |-> "createOrShow", target |-> "A"]
    /\ variant = "floating" /\ ~isPanelVisible
    /\ instance /\ live = 1 /\ revealed
    /\ ~isVisible /\ loadViewTo = "A"

\* C14, as claimed: the step in which the host disposes the UI surface
\* stops the watcher, tears down the subscriptions the view registered and
\* clears the static singleton reference, for both variants.
C14_SurfaceDisposalReleasesAll ==
    [][(viewPresent /\ ~viewPresent' /\ live' <= live)
       => /\ watching' = Null
          /\ subscriptions' = 0
          /\ ~instance' /\ live' = 0]_vars

\* C15, as claimed: a handler that comes to its end while the UI surface is
\* disposed or absent posts nothing, is not left by a throw, and unmutes
\* the watcher.
C15_TransportFailureAbsorbed ==
    [][\A r \in Slots :
          (/\ reqs[r].pc = "await" /\ reqs'[r].pc # "await"
           /\ (disposed \/ ~viewPresent))
          => reqs'[r].pc = "done" /\ outbox' = outbox /\ ~muted']_vars

\* C16, as claimed: a repository-set change event that reaches the view
\* while it is not visible leaves the event's LoadTarget pending and pushes
\* no message.
C16_HiddenEventRecorded ==
    [][(called'.op = "onDidChangeRepos" /\ subscriptions > 0 /\ ~isVisible)
       => loadViewTo' = called'.target /\ outbox' = outbox]_vars

\* C17, as claimed: every non-null LoadTarget handed to the view so far has
\* either reached the UI surface exactly once (in a render or in a loadRepos
\* message) or is the pending LoadTarget.
C17_ConsumedExactlyOnce ==
    handed = delivered + NonNull(loadViewTo) + NonNull(showCall.target)

\* C18, as claimed: a repository-set change event that reaches the view
\* while it is visible either (zero/nonzero transition) renders once with
\* the event's LoadTarget and pushes nothing, or pushes exactly one
\* loadRepos message with the event's repos and LoadTarget and renders
\* nothing.
C18_VisibleEvent ==
    [][(called'.op = "onDidChangeRepos" /\ subscriptions > 0 /\ isVisible)
       => IF reRenders(Cardinality(repos'))
          THEN rendered' = <<called'.target>> /\ outbox' = outbox
          ELSE /\ rendered' = <<>>
               /\ outbox' = Append(outbox, respondLoadRepos(repos', called'.target))]_vars

\* C19: the step in which a loadRepoInfo handler completes with its
\* response posted.  Request's repo differs from the tracked one: the
\* tracked repository and the persisted last active repository become the
\* request's repo and the watcher is started on it.  Same repo: all three
\* stay as they were and the watcher is not called.
C19_WatcherSwitch ==
    [][\A r \in Slots :
          (/\ reqs[r].pc \in {"idle", "await"} /\ reqs'[r].pc = "done"
           /\ reqs'[r].msg.command = "loadRepoInfo")
          => /\ outbox' = Append(outbox, reqs'[r].sent[1])
             /\ IF reqs'[r].msg.repo # currentRepo
                THEN /\ currentRepo' = reqs'[r].msg.repo
                     /\ lastActiveRepo' = reqs'[r].msg.repo
                     /\ watching' = reqs'[r].msg.repo
                     /\ watcherCalls' = <<"start">>
                ELSE /\ UNCHANGED <<currentRepo, lastActiveRepo, watching>>
                     /\ watcherCalls' = <<>>]_vars

\* C19 witness: two loadRepoInfo requests for the same repository were
\* answered; the second completion has just left the watcher alone.
C19_Witness ==
    /\ \A r \in {1, 2} : Posted(r) /\ reqs[r].msg.command = "loadRepoInfo"
    /\ reqs[1].msg.repo = reqs[2].msg.repo
    /\ Len(outbox) = 2 /\ watcherCalls = <<>>
    /\ watching = reqs[1].msg.repo /\ currentRepo = reqs[1].msg.repo
    /\ lastActiveRepo = reqs[1].msg.repo

\* Position of the loadRepoInfo response with refreshId id in the outbox.
AnsweredAt(id) ==
    {i \in 1..Len(outbox) : outbox[i].command = "loadRepoInfo" /\ outbox[i].refreshId = id}

\* C20, as claimed: a running watcher watches the tracked current
\* repository, and when loadRepoInfo requests for different repositories,
\* sent first (slot 1) and second (slot 2), were answered second-then-first,
\* the watcher and the persisted last active repository are on the
\* repository of the second request.
C20_WatcherOnLatestRequest ==
    /\ watching # Null => watching = currentRepo
    /\ (/\ \A r \in {1, 2} : Posted(r) /\ reqs[r].msg.command = "loadRepoInfo"
        /\ reqs[1].msg.repo # reqs[2].msg.repo
        /\ \E i \in AnsweredAt(2) : \E j \in AnsweredAt(1) : i < j)
       => watching = reqs[2].msg.repo /\ lastActiveRepo = reqs[2].msg.repo

\* C27: every render serves the 'unable to load' document when the Git
\* executable is unknown, whatever the number of repositories; otherwise
\* the working document when at least one repository is known and the
\* 'no repositories' document when none is.
C27_DocumentSelection ==
    \A i \in 1..Len(document) :
        document[i].body =
            IF gitExecutableUnknown THEN "unableToLoad"
            ELSE IF Cardinality(document[i].initialState.repos) > 0 THEN "working"
            ELSE "noRepos"

\* C27 witness: after a repository-set change event, a render with an
\* unknown Git executable and a known repository has served the 'unable to
\* load' document.
C27_Witness ==
    /\ gitExecutableUnknown /\ events > 0
    /\ Len(document) = 1 /\ document[1].body = "unableToLoad"
    /\ Cardinality(document[1].initialState.repos) > 0

\* C28, as claimed: after a render, the 'graph view loaded' flag is true
\* exactly when the document just rendered is the working document.
C28_LoadedIffWorkingDocument ==
    Len(document) > 0
    => (isGraphViewLoaded <=> document[Len(document)].body = "working")

\* C21: once the view is disposed, no step starts the watcher or changes the
\* persisted last active repository; the watcher stays stopped.
C21_StoppedAfterDisposal ==
    [][(disposed /\ disposed')
       => (watching' = Null /\ lastActiveRepo' = lastActiveRepo)]_vars

\* C29: a watcher change notification pushes 'refresh' only while the view
\* is visible; when the surface is hidden or not materialized the callback
\* sends nothing and changes no state of the view.
C29_RefreshOnlyWhileVisible ==
    [][/\ (called'.op = "watcherChange" /\ ~isVisible)
          => UNCHANGED <<outbox, viewVars, hostVars, delivered, currentRepo,
                         loadRepoInfoRefreshId, loadCommitsRefreshId, watching, muted,
                         lastActiveRepo, reqs>>
       /\ RefreshCount(outbox') > RefreshCount(outbox) => isVisible]_vars

\* The callback ran while a hidden floating panel's watcher was running.
C29_Witness ==
    /\ called.op = "watcherChange"
    /\ variant = "floating" /\ ~isVisible /\ ~disposed
    /\ watching # Null /\ ~muted
    /\ RefreshCount(outbox) = 0

\* C30, as claimed: whatever materializations and surface disposals came
\* before, a repository-set change event received while visible causes at
\* most one loadRepos push or one render, and an avatar event at most one
\* fetchAvatar push.
C30_OneReactionPerEvent ==
    [][/\ (called'.op = "onDidChangeRepos" /\ isVisible)
          => Len(rendered') + Len(outbox') - Len(outbox) <= 1
       /\ called'.op = "onAvatar"
          => Len(outbox') - Len(outbox) <= 1]_vars

\* C23: the step in which a loadRepos handler ends.  With check = false, or
\* check = true and the existence check reporting no changes, it sends one
\* loadRepos message with the repositories known at that moment and a null
\* LoadTarget; with check = true and changes reported it sends nothing.  A
\* repository-set change event that reaches the visible view renders or
\* pushes loadRepos messages with the event's repositories.
C23_LoadReposConditional ==
    [][/\ (reqs[1].pc # "done" /\ reqs'[1].pc = "done" /\ reqs'[1].msg.command = "loadRepos")
          => IF ~reqs'[1].msg.check \/ reqs'[1].results = <<"false">>
             THEN /\ reqs'[1].sent = IF sendMessage = "posted"
                                      THEN <<respondLoadRepos(repos, Null)>> ELSE <<>>
                  /\ outbox' = outbox \o reqs'[1].sent
             ELSE /\ reqs'[1].results = <<"true">>
                  /\ reqs'[1].sent = <<>> /\ outbox' = outbox /\ rendered' = <<>>
       /\ (called'.op = "onDidChangeRepos" /\ isVisible /\ subscriptions > 0)
          => /\ Len(rendered') + Len(outbox') - Len(outbox) >= 1
             /\ \A i \in (Len(outbox) + 1)..Len(outbox') :
                   /\ outbox'[i].command = "loadRepos"
                   /\ outbox'[i].repos = repos'
                   /\ outbox'[i].loadViewTo = called'.target]_vars

\* A loadRepos request with check = true whose check reported changes ended
\* without a response, and the change event has just pushed the loadRepos
\* message.
C23_Witness ==
    /\ reqs[1].msg = [command |-> "loadRepos", check |-> TRUE]
    /\ reqs[1].pc = "done" /\ reqs[1].results = <<"true">> /\ reqs[1].sent = <<>>
    /\ called.op = "onDidChangeRepos" /\ isVisible
    /\ Len(outbox) = 1 /\ outbox[1].command = "loadRepos" /\ outbox[1].repos = {"A"}

\* The refresh id of the most recently received request of a command (the
\* r-th request carries refresh id r), 0 when none was received.
LastReceived(command) ==
    LET got == {r \in Slots : reqs[r].pc # "idle" /\ reqs[r].msg.command = command}
    IN  IF got = {} THEN 0 ELSE CHOOSE r \in got : \A s \in got : s <= r

\* C24: the remembered repository-info id is the refresh id of the most
\* recently received loadRepoInfo request and the remembered commit-list id
\* that of the most recently received loadCommits request, whatever the
\* other requests and the order of completion; a render embeds the two
\* remembered ids in its initial state.
C24_IndependentStreams ==
    /\ loadRepoInfoRefreshId = LastReceived("loadRepoInfo")
    /\ loadCommitsRefreshId = LastReceived("loadCommits")
    /\ \A i \in 1..Len(document) :
          /\ document[i].initialState.loadRepoInfoRefreshId = loadRepoInfoRefreshId
          /\ document[i].initialState.loadCommitsRefreshId = loadCommitsRefreshId

\* A loadRepoInfo request (id 1) and then a loadCommits request (id 2) were
\* received, the second was answered first, and the view has just rendered
\* with both ids.
C24_Witness ==
    /\ reqs[1].msg.command = "loadRepoInfo" /\ reqs[1].pc = "await"
    /\ reqs[2].msg.command = "loadCommits" /\ reqs[2].pc = "done"
    /\ Len(document) = 1
    /\ document[1].initialState.loadRepoInfoRefreshId = 1
    /\ document[1].initialState.loadCommitsRefreshId = 2

\* Slot r holds the first loadRepoInfo request received after the view last
\* became visible.
FirstLoadRepoInfoSinceShown(r) ==
    /\ r > shownAt /\ reqs[r].pc # "idle" /\ reqs[r].msg.command = "loadRepoInfo"
    /\ \A s \in Slots : (shownAt < s /\ s < r) => reqs[s].msg.command # "loadRepoInfo"

\* C22, as claimed: the step in which the view goes from hidden to visible
\* calls nothing on the watcher and leaves it stopped; a stopped watcher is
\* started only by a step in which a loadRepoInfo handler completes; and the
\* completion of the first loadRepoInfo request received after the view
\* became visible leaves the watcher running on the request's repository.
C22_StartedByFirstLoadRepoInfo ==
    [][/\ (~isPanelVisible /\ isPanelVisible' /\ live' = live)
          => watcherCalls' = <<>> /\ watching' = Null
       /\ (watching = Null /\ watching' # Null)
          => \E r \in Slots : /\ reqs'[r].msg.command = "loadRepoInfo"
                               /\ reqs[r].pc # "done" /\ reqs'[r].pc = "done"
       /\ \A r \in Slots :
             (FirstLoadRepoInfoSinceShown(r) /\ reqs[r].pc # "done" /\ reqs'[r].pc = "done")
             => watching' = reqs[r].msg.repo]_vars

\* C25: when a call of show on the docked view comes to its end and the
\* surface is still not materialized, the LoadTarget becomes the pending
\* target and nothing is sent or rendered; the step in which the host
\* materializes the surface renders once, with the pending target, and
\* leaves the pending target null.
C25_DeferredUntilResolved ==
    [][/\ (called'.op = "showResume" /\ showCall'.pc = "done" /\ ~viewPresent)
          => /\ loadViewTo' = showCall.target
             /\ outbox' = outbox /\ rendered' = <<>>
       /\ (variant = "docked" /\ ~viewPresent /\ viewPresent')
          => /\ rendered' = <<loadViewTo>>
             /\ document'[1].initialState.loadViewTo = loadViewTo
             /\ loadViewTo' = Null
             /\ outbox' = outbox]_vars

\* show(A) ended after both reveal commands failed, and the surface has
\* just been materialized for the first time: its render carries A.
C25_Witness ==
    /\ variant = "docked" /\ viewPresent /\ subscriptions = 1
    /\ showCall.pc = "done" /\ showCall.results = <<"failed", "failed">>
    /\ rendered = <<"A">> /\ loadViewTo = Null /\ outbox = <<>>
    /\ handed = 1 /\ delivered = 1

\* C26: a call of show never ends in a throw; with a surface it executes no
\* reveal command; without one it executes the first reveal command, the
\* fallback command exactly when the first one failed and then only once,
\* and logs one error exactly when both failed; it is over exactly when
\* the surface existed, or a command succeeded, or both failed.
C26_RevealFaultsAbsorbed ==
    /\ showCall.pc \in {"idle", "focus", "fallback", "done"}
    /\ showCall.commands \in
          {<<>>, <<"git-graph.panel.focus">>,
           <<"git-graph.panel.focus", "workbench.view.extension.git-graph-panel">>}
    /\ Len(showCall.commands) = 2 <=> (Len(showCall.results) >= 1
                                        /\ showCall.results[1] = "failed")
    /\ showCall.logged = (IF showCall.results = <<"failed", "failed">> THEN 1 ELSE 0)
    /\ showCall.pc = "done"
          <=> \/ showCall.commands = <<>> /\ showCall # NoShow
              \/ showCall.results \in {<<"ok">>, <<"failed", "ok">>, <<"failed", "failed">>}
    /\ showCall.pc = "focus" <=> (Len(showCall.commands) = 1 /\ showCall.results = <<>>)
    /\ showCall.pc = "fallback" <=> showCall.results = <<"failed">>

\* Both reveal commands failed: the fallback was tried once, one error was
\* logged, and show ended by saving the LoadTarget.
C26_Witness ==
    /\ called = [op |-> "showResume", target |-> "A"]
    /\ showCall.pc = "done" /\ showCall.logged = 1
    /\ Len(showCall.commands) = 2 /\ showCall.results = <<"failed", "failed">>
    /\ ~viewPresent /\ loadViewTo = "A"

\* C32: a loadCommits handler invokes getCommits and no other backend call
\* (no repository-existence probe, whatever getCommits reported), and the
\* response it posts carries the error getCommits reported, unchanged.
C32_LoadCommitsErrorPassedThrough ==
    \A r \in Slots :
        reqs[r].msg.command = "loadCommits"
        => /\ Len(reqs[r].calls) <= 1
           /\ \A i \in 1..Len(reqs[r].calls) :
                 reqs[r].calls[i] = [fn |-> "getCommits", arg |-> reqs[r].msg.repo]
           /\ Invoked(r, "repoRoot") = {}
           /\ (reqs[r].pc = "done" => Len(reqs[r].results) = 1)
           /\ (Posted(r) => /\ reqs[r].sent[1].command = "loadCommits"
                            /\ reqs[r].sent[1].error = reqs[r].results[1])

\* A loadCommits request whose getCommits call failed has been answered
\* with that error, while a loadRepoInfo request on the same repository
\* that failed went on to probe the repository.
C32_Witness ==
    /\ reqs[1].msg.command = "loadRepoInfo" /\ reqs[1].msg.repo = "A"
    /\ Invoked(1, "repoRoot") # {}
    /\ reqs[2].msg.command = "loadCommits" /\ reqs[2].pc = "done"
    /\ reqs[2].results = <<Failure([fn |-> "getCommits", arg |-> "A"])>>
    /\ Len(reqs[2].sent) = 1
    /\ reqs[2].sent[1].error = Failure([fn |-> "getCommits", arg |-> "A"])

\* Every occurrence of a in list L comes before every occurrence of b.
Before(L, a, b) ==
    \A i \in 1..Len(L) : \A j \in 1..Len(L) : (L[i] = a /\ L[j] = b) => i < j

\* Number of occurrences of a in list L.
Count(L, a) == Cardinality({i \in 1..Len(L) : L[i] = a})

\* C31: in every invocation of respondToMessage the watcher is muted first,
\* before the handler suspends on any backend call; sendMessage is called at
\* most once, after every backend call the handler invoked has completed;
\* the watcher is unmuted once, as the last thing, after sendMessage; and a
\* loadRepoInfo handler starts the watcher on the new repository only after
\* its sendMessage call.
C31_StepOrdering ==
    \A r \in Slots :
        reqs[r].pc # "idle"
        => LET L == reqs[r].log
           IN  /\ L[1] = "mute" /\ Count(L, "mute") = 1
               /\ Count(L, "await") = Len(reqs[r].calls)
               /\ Count(L, "sendMessage") <= 1 /\ Count(L, "unmute") <= 1
               /\ Before(L, "await", "sendMessage")
               /\ Before(L, "await", "start")
               /\ Before(L, "await", "unmute")
               /\ Before(L, "sendMessage", "start")
               /\ Before(L, "sendMessage", "unmute")
               /\ Before(L, "start", "unmute")
               /\ (Count(L, "sendMessage") = 1
                      => Len(reqs[r].results) = Len(reqs[r].calls))
               /\ (Count(L, "start") = 1
                      => /\ reqs[r].msg.command = "loadRepoInfo"
                         /\ Count(L, "sendMessage") = 1)
               /\ (reqs[r].pc = "await" <=> L[Len(L)] = "await")
               /\ (reqs[r].pc = "done" <=> L[Len(L)] = "unmute")
               /\ (Len(reqs[r].sent) = 1 => Count(L, "sendMessage") = 1)

\* A loadRepoInfo handler whose query failed probed the repository, sent
\* its response, switched the watcher and unmuted it, in that order.
C31_Witness ==
    /\ reqs[1].msg.command = "loadRepoInfo" /\ Posted(1)
    /\ reqs[1].log = <<"mute", "await", "await", "sendMessage", "start", "unmute">>
    /\ watching = reqs[1].msg.repo /\ ~muted
====
